---- MODULE Spec2Model ----
(***************************************************************************)
(* State-machine model of the evaluation core of the chick-call onset /    *)
(* offset detection project:                                               *)
(*   - f_measure  (src/mir_eval_modified/offset.py): window matching plus  *)
(*     the duration-relative ("collar") pass, and the scores built on it;  *)
(*   - double_thr_ons_detect (src/_old__algorithms.py): the double         *)
(*     threshold scan of a magnitude spectrogram.                          *)
(*                                                                         *)
(* Conventions.  Event times are exact multiples of one time unit and are  *)
(* held as integers; the comparison |a - b| <= 0.5 * d of the source is    *)
(* written 2 * |a - b| <= d.  A float quotient n / d is held as the pair   *)
(* <<n, d>>.  Sequences are 1-based: index k here is index k-1 of the      *)
(* source.  The spectrogram is a function bin -> frame -> magnitude with   *)
(* 0-based bins and frames, as in the source.                              *)
(***************************************************************************)
EXTENDS Integers, Sequences, FiniteSets, TLC

VARIABLES
    \* ---- f_measure: inputs
    reference_onsets, reference_offsets, estimated_offsets, window,
    \* ---- f_measure: locals
    pc, warnings, matching, matched_reference, matched_estimated,
    TP, FP, FN, precision, recall, ref_i, divisors, result,
    \* ---- double_thr_ons_detect
    dpc, spectrogram, frame_t, onset_times, flagged, detected,
    \* ---- double_onsets_correction
    cpc, onsets_predicted, gt_onsets, correction, filtered_onsets, corr_i,
    corrected,
    \* ---- compute_weighted_average
    apc, avg_scores, avg_weights, average,
    \* ---- run_offset_detection (the corpus-level driver)
    drv_pc, list_files, file_k, individual_fscores, individual_precision,
    individual_recall, n_events_list, global_results

scoreVars == <<reference_onsets, reference_offsets, estimated_offsets, window,
               pc, warnings, matching, matched_reference, matched_estimated,
               TP, FP, FN, precision, recall, ref_i, divisors, result>>
detectVars == <<dpc, spectrogram, frame_t, onset_times, flagged, detected>>
corrVars == <<cpc, onsets_predicted, gt_onsets, correction, filtered_onsets,
              corr_i, corrected>>
avgVars == <<apc, avg_scores, avg_weights, average>>
driverVars == <<drv_pc, list_files, file_k, individual_fscores,
                individual_precision, individual_recall, n_events_list,
                global_results>>
laterVars == <<corrVars, avgVars, driverVars>>
vars == <<scoreVars, detectVars, corrVars, avgVars, driverVars>>

(***************************************************************************)
(* Bounds of the model.                                                    *)
(***************************************************************************)
\* longest reference / estimated offset sequence drawn
MaxLen == 2
\* event times are drawn from 0..MaxTime
MaxTime == 3
\* the matching window is drawn from 0..MaxWindow
MaxWindow == 1
\* spectrograms of 2..MaxFrames time frames are drawn
MaxFrames == 3
\* the frame of the single strong cell in the long synthetic spectrograms
ScenarioFrame == 10
\* a corpus holds 0..MaxFiles recordings
MaxFiles == 2
\* a recording holds 0..MaxEvents reference events
MaxEvents == 2

(***************************************************************************)
(* Arithmetic helpers.                                                     *)
(***************************************************************************)
Abs(x) == IF x < 0 THEN -x ELSE x

\* a float quotient n / d, kept exact
Quot(n, d) == <<n, d>>
RatEq(a, b) == a[1] * b[2] = b[1] * a[2]
RatIsZero(a) == a[1] = 0
\* numerator and denominator of a + b and a * b
RatAdd(a, b) == <<a[1] * b[2] + b[1] * a[2], a[2] * b[2]>>
RatMul(a, b) == <<a[1] * b[1], a[2] * b[2]>>
\* the value a float divisor has to be non-zero: its numerator
DivisorOf(r) == r[1]

Range(s) == {s[k] : k \in 1..Len(s)}

\* elements of sequence s at the indices of set idx; list(set) of small
\* integers iterates in ascending order
RECURSIVE TakeFrom(_, _, _)
TakeFrom(s, idx, k) ==
    IF k > Len(s) THEN <<>>
    ELSE (IF k \in idx THEN <<s[k]>> ELSE <<>>) \o TakeFrom(s, idx, k + 1)
Take(s, idx) == TakeFrom(s, idx, 1)

\* s[sel[1]], s[sel[2]], ... (numpy fancy indexing with an index list)
Gather(s, sel) == [k \in 1..Len(sel) |-> s[sel[k]]]

(***************************************************************************)
(* util_mod.match_events: the window matcher.  util_mod is not among the   *)
(* source files; the matcher is modelled from its description: each       *)
(* reference event, in order, takes the closest not-yet-used estimated     *)
(* event within the window, ties to the earliest estimated index.          *)
(***************************************************************************)
Closest(ref_time, est, cand) ==
    CHOOSE j \in cand : \A k \in cand :
        \/ Abs(ref_time - est[j]) < Abs(ref_time - est[k])
        \/ Abs(ref_time - est[j]) = Abs(ref_time - est[k]) /\ j <= k

RECURSIVE MatchFrom(_, _, _, _, _)
MatchFrom(ref, est, w, i, used) ==
    IF i > Len(ref) THEN <<>>
    ELSE LET cand == {j \in 1..Len(est) :
                         j \notin used /\ Abs(ref[i] - est[j]) <= w}
         IN  IF cand = {} THEN MatchFrom(ref, est, w, i + 1, used)
             ELSE LET j == Closest(ref[i], est, cand)
                  IN  <<<<i, j>>>> \o MatchFrom(ref, est, w, i + 1, used \cup {j})

match_events(ref, est, w) == MatchFrom(ref, est, w, 1, {})

(***************************************************************************)
(* f_measure, offset.py lines 58-153.                                      *)
(***************************************************************************)
NoResult == [kind |-> "none"]

\* the other components, not called
CorrIdle ==
    /\ cpc = "idle" /\ onsets_predicted = <<>> /\ gt_onsets = <<>>
    /\ correction = 0 /\ filtered_onsets = <<>> /\ corr_i = 0
    /\ corrected = NoResult
AvgIdle ==
    /\ apc = "idle" /\ avg_scores = <<>> /\ avg_weights = <<>>
    /\ average = NoResult
DriverIdle ==
    /\ drv_pc = "idle" /\ list_files = <<>> /\ file_k = 0
    /\ individual_fscores = <<>> /\ individual_precision = <<>>
    /\ individual_recall = <<>> /\ n_events_list = <<>>
    /\ global_results = NoResult

\* validate(): the two emptiness warnings (non-fatal)
ValidateWarnings(ref, est) ==
    (IF Len(ref) = 0 THEN {"Reference onsets are empty."} ELSE {})
    \cup (IF Len(est) = 0 THEN {"Estimated onsets are empty."} ELSE {})

\* line 102: either list empty
IsEmptyInput(ref, est) == Len(ref) = 0 \/ Len(est) = 0

\* the zero return with FP and FN exchanged (not what the source returns)
ZeroReturnSwapped(ref, est) ==
    [kind |-> "return", f_measure |-> Quot(0, 1), precision |-> Quot(0, 1),
     recall |-> Quot(0, 1), TP |-> <<>>, FP |-> ref, FN |-> est]
\* lines 103 and 110: return 0., 0., 0., [], estimated_offsets, reference_offsets
ZeroReturn(ref, est) ==
    [kind |-> "return", f_measure |-> Quot(0, 1), precision |-> Quot(0, 1),
     recall |-> Quot(0, 1), TP |-> <<>>, FP |-> est, FN |-> ref]

\* a test that never takes the early return (not what the source does)
NeverNoMatch(m) == FALSE
\* line 109: the base matching found nothing
HasNoMatch(m) == Len(m) = 0

\* lines 130-138, inner loop: the first estimated index j (over ALL estimated
\* offsets) within half the duration of reference event i; 0 when none
CollarHit(ref_on, ref_off, est, i) ==
    LET hits == {j \in 1..Len(est) :
                    2 * Abs(ref_off[i] - est[j]) <= ref_off[i] - ref_on[i]}
    IN  IF hits = {} THEN 0 ELSE CHOOSE j \in hits : \A k \in hits : j <= k

Start ==
    /\ pc = "start"
    /\ warnings' = ValidateWarnings(reference_offsets, estimated_offsets)
    /\ pc' = "validated"
    /\ UNCHANGED <<reference_onsets, reference_offsets, estimated_offsets, window,
                   matching, matched_reference, matched_estimated, TP, FP, FN,
                   precision, recall, ref_i, divisors, result>>
    /\ UNCHANGED detectVars
    /\ UNCHANGED laterVars

\* lines 102-103
EmptyReturn ==
    /\ pc = "validated"
    /\ IsEmptyInput(reference_offsets, estimated_offsets)
    /\ result' = ZeroReturn(reference_offsets, estimated_offsets)
    /\ pc' = "done"
    /\ UNCHANGED <<reference_onsets, reference_offsets, estimated_offsets, window,
                   warnings, matching, matched_reference, matched_estimated,
                   TP, FP, FN, precision, recall, ref_i, divisors>>
    /\ UNCHANGED detectVars
    /\ UNCHANGED laterVars

\* the call with reference and estimated offsets exchanged (not what the
\* source does)
MatchEventsSwapped ==
    /\ pc = "validated"
    /\ ~IsEmptyInput(reference_offsets, estimated_offsets)
    /\ matching' = match_events(estimated_offsets, reference_offsets, window)
    /\ pc' = "matched"
    /\ UNCHANGED <<reference_onsets, reference_offsets, estimated_offsets, window,
                   warnings, matched_reference, matched_estimated,
                   TP, FP, FN, precision, recall, ref_i, divisors, result>>
    /\ UNCHANGED detectVars
    /\ UNCHANGED laterVars

\* line 107
MatchEvents ==
    /\ pc = "validated"
    /\ ~IsEmptyInput(reference_offsets, estimated_offsets)
    /\ matching' = match_events(reference_offsets, estimated_offsets, window)
    /\ pc' = "matched"
    /\ UNCHANGED <<reference_onsets, reference_offsets, estimated_offsets, window,
                   warnings, matched_reference, matched_estimated,
                   TP, FP, FN, precision, recall, ref_i, divisors, result>>
    /\ UNCHANGED detectVars
    /\ UNCHANGED laterVars

\* lines 109-110
NoMatchReturn ==
    /\ pc = "matched"
    /\ HasNoMatch(matching)
    /\ result' = ZeroReturn(reference_offsets, estimated_offsets)
    /\ pc' = "done"
    /\ UNCHANGED <<reference_onsets, reference_offsets, estimated_offsets, window,
                   warnings, matching, matched_reference, matched_estimated,
                   TP, FP, FN, precision, recall, ref_i, divisors>>
    /\ UNCHANGED detectVars
    /\ UNCHANGED laterVars

\* lines 112-126
BasePass ==
    /\ pc = "matched"
    /\ ~HasNoMatch(matching)
    /\ LET mr == [k \in 1..Len(matching) |-> matching[k][1]]
           me == [k \in 1..Len(matching) |-> matching[k][2]]
           unmatched_reference == (1..Len(reference_offsets)) \ Range(mr)
           unmatched_estimated == (1..Len(estimated_offsets)) \ Range(me)
       IN  /\ matched_reference' = mr
           /\ matched_estimated' = me
           /\ TP' = Gather(estimated_offsets, me)
           /\ FP' = Take(estimated_offsets, unmatched_estimated)
           /\ FN' = Take(reference_offsets, unmatched_reference)
    /\ precision' = Quot(Len(matching), Len(estimated_offsets))
    /\ recall' = Quot(Len(matching), Len(reference_offsets))
    /\ divisors' = divisors \cup {Len(estimated_offsets), Len(reference_offsets)}
    /\ ref_i' = 1
    /\ pc' = "collar"
    /\ UNCHANGED <<reference_onsets, reference_offsets, estimated_offsets, window,
                   warnings, matching, result>>
    /\ UNCHANGED detectVars
    /\ UNCHANGED laterVars

\* the iteration that also deletes the accepted estimated offset from the
\* caller's sequence (not what the source does)
CollarStepConsuming ==
    /\ pc = "collar"
    /\ ref_i <= Len(reference_offsets)
    /\ IF ref_i > Len(reference_onsets)
       THEN /\ result' = [kind |-> "IndexError"]
            /\ pc' = "done"
            /\ UNCHANGED <<TP, matched_estimated, matched_reference, ref_i,
                           estimated_offsets>>
       ELSE LET j == CollarHit(reference_onsets, reference_offsets,
                               estimated_offsets, ref_i)
            IN  /\ IF j = 0
                   THEN UNCHANGED <<TP, matched_estimated, matched_reference,
                                    estimated_offsets>>
                   ELSE /\ TP' = Append(TP, estimated_offsets[j])
                        /\ matched_estimated' = Append(matched_estimated, j)
                        /\ matched_reference' = Append(matched_reference, ref_i)
                        /\ estimated_offsets' =
                               SubSeq(estimated_offsets, 1, j - 1)
                               \o SubSeq(estimated_offsets, j + 1,
                                         Len(estimated_offsets))
                /\ ref_i' = ref_i + 1
                /\ UNCHANGED <<result, pc>>
    /\ UNCHANGED <<reference_onsets, reference_offsets, window,
                   warnings, matching, FP, FN, precision, recall, divisors>>
    /\ UNCHANGED detectVars
    /\ UNCHANGED laterVars

\* lines 130-138, one iteration of the outer loop (reference event ref_i)
CollarStep ==
    /\ pc = "collar"
    /\ ref_i <= Len(reference_offsets)
    /\ IF ref_i > Len(reference_onsets)
       THEN \* reference_onsets[i] at line 133 is out of range
            /\ result' = [kind |-> "IndexError"]
            /\ pc' = "done"
            /\ UNCHANGED <<TP, matched_estimated, matched_reference, ref_i>>
       ELSE LET j == CollarHit(reference_onsets, reference_offsets,
                               estimated_offsets, ref_i)
            IN  /\ IF j = 0
                   THEN UNCHANGED <<TP, matched_estimated, matched_reference>>
                   ELSE /\ TP' = Append(TP, estimated_offsets[j])
                        /\ matched_estimated' = Append(matched_estimated, j)
                        /\ matched_reference' = Append(matched_reference, ref_i)
                /\ ref_i' = ref_i + 1
                /\ UNCHANGED <<result, pc>>
    /\ UNCHANGED <<reference_onsets, reference_offsets, estimated_offsets, window,
                   warnings, matching, FP, FN, precision, recall, divisors>>
    /\ UNCHANGED detectVars
    /\ UNCHANGED laterVars

\* lines 140-153
Finish ==
    /\ pc = "collar"
    /\ ref_i > Len(reference_offsets)
    /\ LET unmatched_reference ==
               (1..Len(reference_offsets)) \ Range(matched_reference)
           unmatched_estimated ==
               (1..Len(estimated_offsets)) \ Range(matched_estimated)
           FP2 == FP \o Take(estimated_offsets, unmatched_estimated)
           FN2 == FN \o Take(reference_offsets, unmatched_reference)
           p == Quot(Len(TP), Len(TP) + Len(FP2))
           r == Quot(Len(TP), Len(TP) + Len(FN2))
           f == Quot(2 * RatMul(p, r)[1] * RatAdd(p, r)[2],
                     RatMul(p, r)[2] * RatAdd(p, r)[1])
       IN  /\ FP' = FP2
           /\ FN' = FN2
           /\ precision' = p
           /\ recall' = r
           /\ divisors' = divisors \cup {Len(TP) + Len(FP2), Len(TP) + Len(FN2),
                                         DivisorOf(RatAdd(p, r))}
           /\ result' = [kind |-> "return", f_measure |-> f, precision |-> p,
                         recall |-> r, TP |-> TP, FP |-> FP2, FN |-> FN2]
    /\ pc' = "done"
    /\ UNCHANGED <<reference_onsets, reference_offsets, estimated_offsets, window,
                   warnings, matching, matched_reference, matched_estimated,
                   TP, ref_i>>
    /\ UNCHANGED detectVars
    /\ UNCHANGED laterVars

(***************************************************************************)
(* Inputs of f_measure.                                                    *)
(***************************************************************************)
Times == 0..MaxTime

\* reference offsets: one per annotated event, strictly increasing
ReferenceSeqs ==
    {s \in UNION {[1..n -> Times] : n \in 0..MaxLen} :
        \A k \in 1..(Len(s) - 1) : s[k] < s[k + 1]}

\* estimated offsets: in increasing order, repeated times allowed
EstimatedSeqs ==
    {s \in UNION {[1..n -> Times] : n \in 0..MaxLen} :
        \A k \in 1..(Len(s) - 1) : s[k] <= s[k + 1]}

\* reference onsets for the given offsets: one onset not after its offset per
\* event, and also one onset too few or one too many
OnsetsFor(off) ==
    LET paired == {s \in [1..Len(off) -> Times] : \A k \in 1..Len(off) : s[k] <= off[k]}
    IN  paired
        \cup {SubSeq(s, 1, Len(s) - 1) : s \in {x \in paired : Len(x) > 0}}
        \cup {Append(s, MaxTime) : s \in paired}

ScoreIdle ==
    /\ pc = "idle" /\ warnings = {} /\ matching = <<>>
    /\ reference_onsets = <<>> /\ reference_offsets = <<>>
    /\ estimated_offsets = <<>> /\ window = 0
    /\ matched_reference = <<>> /\ matched_estimated = <<>>
    /\ TP = <<>> /\ FP = <<>> /\ FN = <<>>
    /\ precision = Quot(0, 1) /\ recall = Quot(0, 1)
    /\ ref_i = 0 /\ divisors = {} /\ result = NoResult

ScoreSetup(on, off, est, w) ==
    /\ reference_onsets = on /\ reference_offsets = off
    /\ estimated_offsets = est /\ window = w
    /\ pc = "start" /\ warnings = {} /\ matching = <<>>
    /\ matched_reference = <<>> /\ matched_estimated = <<>>
    /\ TP = <<>> /\ FP = <<>> /\ FN = <<>>
    /\ precision = Quot(0, 1) /\ recall = Quot(0, 1)
    /\ ref_i = 0 /\ divisors = {} /\ result = NoResult

\* the worked scenario, in units of 0.05 s: onsets [1.0, 3.0], offsets
\* [1.5, 3.8], estimated [1.6, 5.0], window 0.05
ScenarioOnsets == <<20, 60>>
ScenarioOffsets == <<30, 76>>
ScenarioEstimated == <<32, 100>>
ScenarioWindow == 1

(***************************************************************************)
(* double_thr_ons_detect, _old__algorithms.py lines 313-378.  The band and *)
(* the number of bins are scaled down: bins 0..NumBins-1, of which the     *)
(* band [low_freq_bin, high_freq_bin) is scanned.                          *)
(***************************************************************************)
hop_length == 440
sr == 44100
low_threshold == 100
high_threshold == 200
low_freq_bin == 1
high_freq_bin == 3
NumBins == 3

Band == {f \in 0..(NumBins - 1) : low_freq_bin <= f /\ f < high_freq_bin}
\* magnitudes drawn for the cells inside and outside the band
Levels == {50, 150, 180, 250}
OutLevels == {50, 250}

Shape0(S) == Cardinality(DOMAIN S)
Shape1(S) == Cardinality(DOMAIN S[0])

\* numpy indexing: a negative index counts from the end of the axis
PyIndex(k, n) == IF k < 0 THEN k + n ELSE k

\* librosa.frames_to_time(t, sr, hop_length), in seconds
frames_to_time(t) == Quot(t * hop_length, sr)

\* lines 351-353: the test applied to cell (f, t)
CellTest(S, f, t) ==
    \/ S[f][t] > high_threshold
    \/ /\ S[f][t] > low_threshold
       /\ S[f][t] > S[f][PyIndex(t - 1, Shape1(S))]
       /\ S[f][t] > S[f][t + 1]

\* line 344: the frames the outer loop visits, range(spectrogram.shape[1]-1)
ScannedFrames(S) == 0..(Shape1(S) - 2)

\* lines 346-358: the cells of frame t that pass, in the order of the bins
RECURSIVE BinsFrom(_, _, _)
BinsFrom(S, t, f) ==
    IF f >= high_freq_bin THEN <<>>
    ELSE (IF f < Shape0(S) /\ CellTest(S, f, t) THEN <<f>> ELSE <<>>)
         \o BinsFrom(S, t, f + 1)
PassingBins(S, t) == BinsFrom(S, t, low_freq_bin)

\* lines 344-358: one iteration of the outer loop (frame frame_t)
ScanFrame ==
    /\ dpc = "scan"
    /\ frame_t \in ScannedFrames(spectrogram)
    /\ LET bins == PassingBins(spectrogram, frame_t)
       IN  /\ onset_times' = onset_times
                  \o [k \in 1..Len(bins) |-> frames_to_time(frame_t)]
           /\ flagged' = flagged \o [k \in 1..Len(bins) |-> <<bins[k], frame_t>>]
    /\ frame_t' = frame_t + 1
    /\ UNCHANGED <<dpc, spectrogram, detected>>
    /\ UNCHANGED scoreVars
    /\ UNCHANGED laterVars

\* lines 361-378
DetectReturn ==
    /\ dpc = "scan"
    /\ frame_t \notin ScannedFrames(spectrogram)
    /\ detected' = [kind |-> "return", onset_times |-> onset_times,
                    seconds |-> [k \in 1..Len(onset_times) |->
                                     Quot((k - 1) * hop_length, sr)]]
    /\ dpc' = "done"
    /\ UNCHANGED <<spectrogram, frame_t, onset_times, flagged>>
    /\ UNCHANGED scoreVars
    /\ UNCHANGED laterVars

(***************************************************************************)
(* Spectrograms given to the detector.                                     *)
(***************************************************************************)
SpectrogramsOf(nf) ==
    {[f \in 0..(NumBins - 1) |-> IF f \in Band THEN b[f] ELSE o[f]] :
        b \in [Band -> [0..(nf - 1) -> Levels]],
        o \in [(0..(NumBins - 1)) \ Band -> [0..(nf - 1) -> OutLevels]]}

\* the synthetic spectrogram: one band cell above high_threshold at frame
\* ScenarioFrame, which is an inner frame or the last one; the first and the
\* last frame of that bin may exceed low_threshold; everything else is quiet
ScenarioSpectrograms ==
    {[f \in 0..(NumBins - 1) |->
        [t \in 0..(nf - 1) |->
            IF f = fs /\ t = ScenarioFrame THEN 250
            ELSE IF f = fs /\ t = 0 THEN first
            ELSE IF f = fs /\ t = nf - 1 THEN last
            ELSE 50]] :
        fs \in Band, nf \in {ScenarioFrame + 1, ScenarioFrame + 2},
        first \in {50, 150, 180}, last \in {50, 150}}

DetectSetup(S) ==
    /\ spectrogram = S /\ dpc = "scan" /\ frame_t = 0
    /\ onset_times = <<>> /\ flagged = <<>> /\ detected = NoResult

DetectIdle ==
    /\ dpc = "idle" /\ spectrogram = <<>> /\ frame_t = 0
    /\ onset_times = <<>> /\ flagged = <<>> /\ detected = NoResult

Init ==
    /\ DetectIdle /\ CorrIdle /\ AvgIdle /\ DriverIdle
    /\ \/ \E off \in ReferenceSeqs : \E on \in OnsetsFor(off) :
            \E est \in EstimatedSeqs : \E w \in 0..MaxWindow :
                ScoreSetup(on, off, est, w)
       \/ ScoreSetup(ScenarioOnsets, ScenarioOffsets, ScenarioEstimated,
                     ScenarioWindow)

Next ==
    \/ Start
    \/ EmptyReturn
    \/ MatchEvents
    \/ NoMatchReturn
    \/ BasePass
    \/ CollarStep
    \/ Finish

Spec == Init /\ [][Next]_vars

DetectInit ==
    /\ ScoreIdle /\ CorrIdle /\ AvgIdle /\ DriverIdle
    /\ \/ \E nf \in 2..MaxFrames : \E S \in SpectrogramsOf(nf) : DetectSetup(S)
       \/ \E S \in ScenarioSpectrograms : DetectSetup(S)

DetectNext ==
    \/ ScanFrame
    \/ DetectReturn

SpecDetect == DetectInit /\ [][DetectNext]_vars

(***************************************************************************)
(* double_onsets_correction, _old__algorithms.py lines 31-48.              *)
(***************************************************************************)
\* lines 33-40: gt_onsets is copied into a new array, differences are taken,
\* and the first predicted onset is kept (IndexError when there is none)
CorrStart ==
    /\ cpc = "start"
    /\ IF Len(onsets_predicted) = 0
       THEN /\ corrected' = [kind |-> "IndexError"]
            /\ cpc' = "done"
            /\ UNCHANGED <<filtered_onsets, corr_i>>
       ELSE /\ filtered_onsets' = <<onsets_predicted[1]>>
            /\ corr_i' = 1
            /\ cpc' = "loop"
            /\ UNCHANGED corrected
    /\ UNCHANGED <<onsets_predicted, gt_onsets, correction>>
    /\ UNCHANGED <<scoreVars, detectVars, avgVars, driverVars>>

\* lines 43-46: one iteration over the differences of consecutive onsets
CorrStep ==
    /\ cpc = "loop"
    /\ corr_i <= Len(onsets_predicted) - 1
    /\ filtered_onsets' =
           IF onsets_predicted[corr_i + 1] - onsets_predicted[corr_i] >= correction
           THEN Append(filtered_onsets, onsets_predicted[corr_i + 1])
           ELSE filtered_onsets
    /\ corr_i' = corr_i + 1
    /\ UNCHANGED <<cpc, onsets_predicted, gt_onsets, correction, corrected>>
    /\ UNCHANGED <<scoreVars, detectVars, avgVars, driverVars>>

\* line 48
CorrReturn ==
    /\ cpc = "loop"
    /\ corr_i > Len(onsets_predicted) - 1
    /\ corrected' = [kind |-> "return", filtered_onsets |-> filtered_onsets]
    /\ cpc' = "done"
    /\ UNCHANGED <<onsets_predicted, gt_onsets, correction, filtered_onsets, corr_i>>
    /\ UNCHANGED <<scoreVars, detectVars, avgVars, driverVars>>

CorrSetup(pred, gt, c) ==
    /\ onsets_predicted = pred /\ gt_onsets = gt /\ correction = c
    /\ cpc = "start" /\ filtered_onsets = <<>> /\ corr_i = 0
    /\ corrected = NoResult

\* the callers' sequences handed to f_measure or to double_onsets_correction
SequencesInit ==
    /\ DetectIdle /\ AvgIdle /\ DriverIdle
    /\ \/ /\ CorrIdle
          /\ \E off \in ReferenceSeqs : \E on \in OnsetsFor(off) :
                 \E est \in EstimatedSeqs : \E w \in 0..MaxWindow :
                     ScoreSetup(on, off, est, w)
       \/ /\ ScoreIdle
          /\ \E pred \in EstimatedSeqs : \E gt \in ReferenceSeqs :
                 \E c \in 0..(MaxWindow + 1) : CorrSetup(pred, gt, c)

SequencesNext ==
    \/ Start
    \/ EmptyReturn
    \/ MatchEvents
    \/ NoMatchReturn
    \/ BasePass
    \/ CollarStep
    \/ Finish
    \/ CorrStart
    \/ CorrStep
    \/ CorrReturn

SpecSequences == SequencesInit /\ [][SequencesNext]_vars

(***************************************************************************)
(* evaluation.compute_weighted_average.  The evaluation module is not      *)
(* among the source files; the function is modelled from its description:  *)
(* sum(score_i * weight_i) / sum(weight_i), InvalidInput when the weights  *)
(* sum to 0 or the two sequences differ in length.                         *)
(***************************************************************************)
RECURSIVE SumFrom(_, _)
SumFrom(w, k) == IF k > Len(w) THEN 0 ELSE w[k] + SumFrom(w, k + 1)

RECURSIVE WeightedSumFrom(_, _, _)
WeightedSumFrom(scores, w, k) ==
    IF k > Len(scores) THEN Quot(0, 1)
    ELSE RatAdd(<<scores[k][1] * w[k], scores[k][2]>>,
                WeightedSumFrom(scores, w, k + 1))

RECURSIVE PlainSumFrom(_, _)
PlainSumFrom(scores, k) ==
    IF k > Len(scores) THEN Quot(0, 1)
    ELSE RatAdd(scores[k], PlainSumFrom(scores, k + 1))

\* the plain mean of the scores, the weights ignored (not what is described)
UnweightedAverage(scores, w) ==
    IF Len(scores) # Len(w) \/ SumFrom(w, 1) = 0
    THEN [kind |-> "InvalidInput"]
    ELSE LET ps == PlainSumFrom(scores, 1)
         IN  [kind |-> "return", value |-> Quot(ps[1], ps[2] * Len(scores))]
compute_weighted_average(scores, w) ==
    IF Len(scores) # Len(w) \/ SumFrom(w, 1) = 0
    THEN [kind |-> "InvalidInput"]
    ELSE LET ws == WeightedSumFrom(scores, w, 1)
         IN  [kind |-> "return", value |-> Quot(ws[1], ws[2] * SumFrom(w, 1))]

\* one call of the function
ApplyAverage ==
    /\ apc = "start"
    /\ average' = compute_weighted_average(avg_scores, avg_weights)
    /\ apc' = "done"
    /\ UNCHANGED <<avg_scores, avg_weights>>
    /\ UNCHANGED <<scoreVars, detectVars, corrVars, driverVars>>

\* the scores a recording can get: 0, 1/2, 2/3, 1
ScoreValues == {Quot(0, 1), Quot(1, 2), Quot(2, 3), Quot(1, 1)}
SeqsUpTo(S, n) == UNION {[1..k -> S] : k \in 0..n}

AvgSetup(scores, w) ==
    /\ avg_scores = scores /\ avg_weights = w
    /\ apc = "start" /\ average = NoResult

\* the worked example: weighted_average([1.0, 0.0], [2, 8])
ExampleScores == <<Quot(1, 1), Quot(0, 1)>>
ExampleWeights == <<2, 8>>

AverageInit ==
    /\ ScoreIdle /\ DetectIdle /\ CorrIdle /\ DriverIdle
    /\ \/ \E scores \in SeqsUpTo(ScoreValues, MaxFiles) :
              \E w \in SeqsUpTo(0..MaxEvents, MaxFiles) : AvgSetup(scores, w)
       \/ AvgSetup(ExampleScores, ExampleWeights)

AverageNext == ApplyAverage

SpecAverage == AverageInit /\ [][AverageNext]_vars

(***************************************************************************)
(* run_offset_detection.py, lines 30-94: the corpus-level driver.  A       *)
(* recording is what the loop body gets from its collaborators: the number *)
(* of reference events read and the outcome of detection and f_measure,    *)
(* the scores (F, precision, recall) or an exception.                      *)
(***************************************************************************)
Raises == [kind |-> "raise"]
Scores(f, p, r) == [kind |-> "scores", F |-> f, P |-> p, R |-> r]
ZeroScores == Scores(Quot(0, 1), Quot(0, 1), Quot(0, 1))
Outcomes ==
    {Raises, ZeroScores,
     Scores(Quot(2, 3), Quot(1, 2), Quot(1, 1)),
     Scores(Quot(1, 1), Quot(1, 1), Quot(1, 1))}

\* without reference events f_measure returns the zero scores
Recordings ==
    {r \in [n_events : 0..MaxEvents, outcome : Outcomes] :
        r.n_events = 0 => r.outcome.kind = "raise" \/ r.outcome = ZeroScores}

\* lines 37-85: the loop body for a recording that is evaluated
ProcessRecording ==
    /\ drv_pc = "loop"
    /\ file_k <= Len(list_files)
    /\ list_files[file_k].outcome.kind # "raise"
    /\ individual_fscores' = Append(individual_fscores, list_files[file_k].outcome.F)
    /\ individual_precision' = Append(individual_precision, list_files[file_k].outcome.P)
    /\ individual_recall' = Append(individual_recall, list_files[file_k].outcome.R)
    /\ n_events_list' = Append(n_events_list, list_files[file_k].n_events)
    /\ file_k' = file_k + 1
    /\ UNCHANGED <<drv_pc, list_files, global_results>>
    /\ UNCHANGED <<scoreVars, detectVars, corrVars, avgVars>>

\* lines 37-68: detection or f_measure raises; nothing in the loop catches
\* it, the exception ends the script
RecordingRaises ==
    /\ drv_pc = "loop"
    /\ file_k <= Len(list_files)
    /\ list_files[file_k].outcome.kind = "raise"
    /\ drv_pc' = "crashed"
    /\ global_results' = [kind |-> "Exception"]
    /\ UNCHANGED <<list_files, file_k, individual_fscores, individual_precision,
                   individual_recall, n_events_list>>
    /\ UNCHANGED <<scoreVars, detectVars, corrVars, avgVars>>

\* lines 88-94: the three weighted averages, written to the global report
GlobalResults ==
    /\ drv_pc = "loop"
    /\ file_k > Len(list_files)
    /\ compute_weighted_average(individual_fscores, n_events_list).kind = "return"
    /\ global_results' =
           [kind |-> "return",
            F1 |-> compute_weighted_average(individual_fscores, n_events_list).value,
            Precision |->
                compute_weighted_average(individual_precision, n_events_list).value,
            Recall |->
                compute_weighted_average(individual_recall, n_events_list).value]
    /\ drv_pc' = "done"
    /\ UNCHANGED <<list_files, file_k, individual_fscores, individual_precision,
                   individual_recall, n_events_list>>
    /\ UNCHANGED <<scoreVars, detectVars, corrVars, avgVars>>

\* line 88: the first average fails (no events in the corpus); uncaught
GlobalRaises ==
    /\ drv_pc = "loop"
    /\ file_k > Len(list_files)
    /\ compute_weighted_average(individual_fscores, n_events_list).kind # "return"
    /\ global_results' = [kind |-> "InvalidInput"]
    /\ drv_pc' = "crashed"
    /\ UNCHANGED <<list_files, file_k, individual_fscores, individual_precision,
                   individual_recall, n_events_list>>
    /\ UNCHANGED <<scoreVars, detectVars, corrVars, avgVars>>

\* lines 30-35: the lists are empty before the loop
DriverSetup(files) ==
    /\ list_files = files /\ file_k = 1 /\ drv_pc = "loop"
    /\ individual_fscores = <<>> /\ individual_precision = <<>>
    /\ individual_recall = <<>> /\ n_events_list = <<>>
    /\ global_results = NoResult

DriverInit ==
    /\ ScoreIdle /\ DetectIdle /\ CorrIdle /\ AvgIdle
    /\ \E files \in SeqsUpTo(Recordings, MaxFiles) : DriverSetup(files)

DriverNext ==
    \/ ProcessRecording
    \/ RecordingRaises
    \/ GlobalResults
    \/ GlobalRaises

SpecDriver == DriverInit /\ [][DriverNext]_vars

(***************************************************************************)
(* Properties of f_measure (checked under Spec).                           *)
(***************************************************************************)
Returned == pc = "done" /\ result.kind = "return"
\* the reference onsets and offsets are paired index for index
Paired == Len(reference_onsets) = Len(reference_offsets)
NoRepeats(s) == \A a, b \in 1..Len(s) : s[a] = s[b] => a = b
\* estimated index j is within half the duration of reference event i
WithinCollar(i, j) ==
    2 * Abs(reference_offsets[i] - estimated_offsets[j])
        <= reference_offsets[i] - reference_onsets[i]
\* some pair lies within the base window
WindowPairExists ==
    \E i \in 1..Len(reference_offsets) : \E j \in 1..Len(estimated_offsets) :
        Abs(reference_offsets[i] - estimated_offsets[j]) <= window
IsScenario ==
    /\ reference_onsets = ScenarioOnsets /\ reference_offsets = ScenarioOffsets
    /\ estimated_offsets = ScenarioEstimated /\ window = ScenarioWindow

\* C1: whenever f_measure returns on paired reference onsets/offsets, the
\* returned sets partition the inputs: |TP| + |FP| = |estimated| and
\* |TP| + |FN| = |reference|, counted with multiplicity.
C1_ConfusionSetsPartition ==
    (Returned /\ Paired) =>
        /\ Len(result.TP) + Len(result.FP) = Len(estimated_offsets)
        /\ Len(result.TP) + Len(result.FN) = Len(reference_offsets)

\* C2: when no pair lies within the base window, the duration-relative pass
\* still runs: every estimated offset within half the duration of some
\* reference event is returned as a true positive; and the worked scenario
\* returns TP = [1.6], FP = [5.0], FN = [3.8], precision = recall = F = 1/2.
C2_CollarPassRunsWithoutBaseMatch ==
    (Returned /\ Paired /\ ~WindowPairExists) =>
        /\ \A i \in 1..Len(reference_offsets) : \A j \in 1..Len(estimated_offsets) :
               WithinCollar(i, j) => estimated_offsets[j] \in Range(result.TP)
        /\ IsScenario =>
               /\ result.TP = <<32>> /\ result.FP = <<100>> /\ result.FN = <<76>>
               /\ RatEq(result.precision, <<1, 2>>)
               /\ RatEq(result.recall, <<1, 2>>)
               /\ RatEq(result.f_measure, <<1, 2>>)

\* C3: over the base pass and the duration-relative pass together, no
\* estimated index and no reference index is consumed more than once, and
\* the true positives hold one entry per consumed estimated index.
C3_IndicesConsumedOnce ==
    (Paired /\ pc \in {"collar", "done"}) =>
        /\ NoRepeats(matched_estimated)
        /\ NoRepeats(matched_reference)
        /\ Len(TP) = Cardinality(Range(matched_estimated))

\* C4: for non-empty inputs the returned precision is |TP| / |estimated| and
\* the returned recall is |TP| / |reference|, TP being the returned set, and
\* the returned F-measure is 2PR / (P + R) (0 when P + R = 0).
C4_ScoresFromFinalTP ==
    (Returned /\ Paired /\ Len(reference_offsets) > 0 /\ Len(estimated_offsets) > 0) =>
        /\ RatEq(result.precision, <<Len(result.TP), Len(estimated_offsets)>>)
        /\ RatEq(result.recall, <<Len(result.TP), Len(reference_offsets)>>)
        /\ LET sum == RatAdd(result.precision, result.recall)
               prod == RatMul(result.precision, result.recall)
           IN  IF RatIsZero(sum) THEN RatIsZero(result.f_measure)
               ELSE RatEq(RatMul(result.f_measure, sum), <<2 * prod[1], prod[2]>>)

\* C5: with the reference or the estimated offsets empty, f_measure raises
\* nothing, warns for each empty sequence, and returns exactly
\* (0, 0, 0, [], estimated, reference).
C5_EmptyInputReturnsZero ==
    (Len(reference_offsets) = 0 \/ Len(estimated_offsets) = 0) =>
        /\ result.kind \in {"none", "return"}
        /\ pc \notin {"matched", "collar"}
        /\ pc \in {"validated", "done"} =>
               /\ Len(reference_offsets) = 0 => "Reference onsets are empty." \in warnings
               /\ Len(estimated_offsets) = 0 => "Estimated onsets are empty." \in warnings
        /\ pc = "done" =>
               /\ result.kind = "return"
               /\ RatIsZero(result.f_measure) /\ result.f_measure[2] # 0
               /\ RatIsZero(result.precision) /\ result.precision[2] # 0
               /\ RatIsZero(result.recall) /\ result.recall[2] # 0
               /\ result.TP = <<>>
               /\ result.FP = estimated_offsets
               /\ result.FN = reference_offsets

C5_Witness ==
    /\ pc = "done" /\ result.kind = "return"
    /\ Len(reference_offsets) = 0 /\ Len(estimated_offsets) > 0
    /\ result.FP = estimated_offsets /\ warnings # {}

\* C6: no division of f_measure has a zero divisor, and a returned
\* precision + recall of 0 comes with an F-measure of 0.
C6_NoDivisionByZero ==
    /\ 0 \notin divisors
    /\ Returned =>
           /\ result.precision[2] # 0 /\ result.recall[2] # 0
           /\ result.f_measure[2] # 0
           /\ RatIsZero(RatAdd(result.precision, result.recall))
                  => RatIsZero(result.f_measure)

C6_Witness ==
    /\ Returned /\ Paired
    /\ Cardinality(divisors) >= 2
    /\ Len(result.FP) > 0 /\ Len(result.FN) > 0
    /\ ~RatIsZero(result.f_measure)

\* C7: called with reference onsets and offsets of different lengths (neither
\* offset sequence empty), f_measure ends with the InvalidInput error and
\* returns no score.
C7_MismatchedLengthsRejected ==
    (pc = "done" /\ ~Paired
        /\ Len(reference_offsets) > 0 /\ Len(estimated_offsets) > 0) =>
        result.kind = "InvalidInput"

(***************************************************************************)
(* Properties of double_thr_ons_detect (checked under SpecDetect).         *)
(***************************************************************************)
Detected == dpc = "done" /\ detected.kind = "return"
Frames == 0..(Shape1(spectrogram) - 1)
LastFrame == Shape1(spectrogram) - 1
CellFlagged(f, t) == <<f, t>> \in Range(flagged)

\* the decision rule as specified: strong, or weak and a local maximum in
\* time where both neighbouring frames exist
Qualifies(f, t) ==
    /\ f \in Band
    /\ \/ spectrogram[f][t] > high_threshold
       \/ /\ spectrogram[f][t] > low_threshold
          /\ t - 1 \in Frames /\ t + 1 \in Frames
          /\ spectrogram[f][t] > spectrogram[f][t - 1]
          /\ spectrogram[f][t] > spectrogram[f][t + 1]

Count(s, x) == Cardinality({k \in 1..Len(s) : s[k] = x})

\* C8: at the first and the last frame, a band cell above low_threshold but
\* not above high_threshold produces no onset.
C8_NoWeakOnsetAtBoundary ==
    Detected =>
        \A f \in Band : \A t \in {0, LastFrame} :
            (spectrogram[f][t] > low_threshold /\ spectrogram[f][t] <= high_threshold)
                => ~CellFlagged(f, t)

\* C9: an onset is emitted for cell (f, t) exactly when the cell qualifies;
\* in particular a band cell above high_threshold yields an onset in every
\* frame, the first and the last included.
C9_OnsetIffQualifies ==
    Detected =>
        \A f \in 0..(NumBins - 1) : \A t \in Frames :
            CellFlagged(f, t) <=> Qualifies(f, t)

\* C10: the onsets with value t * hop_length / sr are as many as the
\* qualifying bins of frame t, the output is non-decreasing, and a single
\* qualifying cell at frame ScenarioFrame yields exactly that one onset.
C10_OneOnsetPerQualifyingCell ==
    Detected =>
        /\ \A t \in Frames :
               Count(detected.onset_times, Quot(t * hop_length, sr))
                   = Cardinality({f \in Band : Qualifies(f, t)})
        /\ \A k \in 1..(Len(detected.onset_times) - 1) :
               detected.onset_times[k][1] <= detected.onset_times[k + 1][1]
        /\ (/\ ScenarioFrame \in Frames
            /\ \A f \in Band : \A t \in Frames :
                   Qualifies(f, t) => t = ScenarioFrame
            /\ Cardinality({f \in Band : Qualifies(f, ScenarioFrame)}) = 1)
               => detected.onset_times = <<Quot(ScenarioFrame * hop_length, sr)>>

(***************************************************************************)
(* Properties of the window matching and of the collar pass (checked under *)
(* Spec).                                                                  *)
(***************************************************************************)
\* the base matching has been computed
BaseMatched == pc \in {"matched", "collar"} \/ (pc = "done" /\ matching # <<>>)
\* the pairs (reference index, estimated index) within the window
ValidPairs ==
    {q \in (1..Len(reference_offsets)) \X (1..Len(estimated_offsets)) :
        Abs(reference_offsets[q[1]] - estimated_offsets[q[2]]) <= window}
\* no reference index and no estimated index in two pairs of M
IsMatching(M) == \A a, b \in M : (a[1] = b[1] \/ a[2] = b[2]) => a = b
MaxMatchingSize ==
    LET sizes == {Cardinality(M) : M \in {X \in SUBSET ValidPairs : IsMatching(X)}}
    IN  CHOOSE n \in sizes : \A m \in sizes : m <= n

\* C11: the number of matches the matcher returns is the maximum cardinality
\* of a one-to-one matching whose pairs all lie within the window.
C11_MatchCountIsMaximum ==
    pc = "matched" => Len(matching) = MaxMatchingSize

\* C12: every returned match pairs a reference and an estimated index whose
\* times differ by at most the window, no index is in two matches, and with
\* either sequence empty the match list is empty.
C12_MatchesWithinWindowAndDisjoint ==
    /\ BaseMatched =>
           /\ \A k \in 1..Len(matching) :
                  /\ matching[k][1] \in 1..Len(reference_offsets)
                  /\ matching[k][2] \in 1..Len(estimated_offsets)
                  /\ Abs(reference_offsets[matching[k][1]]
                         - estimated_offsets[matching[k][2]]) <= window
           /\ \A k, l \in 1..Len(matching) :
                  (matching[k][1] = matching[l][1] \/ matching[k][2] = matching[l][2])
                      => k = l
    /\ (Len(reference_offsets) = 0 \/ Len(estimated_offsets) = 0) =>
           /\ matching = <<>>
           /\ match_events(reference_offsets, estimated_offsets, window) = <<>>

C12_Witness ==
    /\ pc = "matched" /\ Len(matching) = 2
    /\ matching[1][2] # matching[2][2]
    /\ \E k \in 1..2 :
           reference_offsets[matching[k][1]] # estimated_offsets[matching[k][2]]

\* C13: the collar pass never lowers the true-positive count of the base
\* matching and never accounts for more events than the inputs hold:
\* |TP| + |FP| <= |estimated| and |TP| + |FN| <= |reference|.
C13_CollarPassMonotone ==
    (Paired /\ pc \in {"collar", "done"} /\ matching # <<>>) =>
        /\ Len(TP) >= Len(matching)
        /\ Len(TP) + Len(FP) <= Len(estimated_offsets)
        /\ Len(TP) + Len(FN) <= Len(reference_offsets)

(***************************************************************************)
(* Property of the callers' sequences (checked under SpecSequences).       *)
(***************************************************************************)
\* C14: no step of f_measure changes the reference onsets, the reference
\* offsets or the estimated offsets it was given, on any path, and no step
\* of double_onsets_correction changes the onsets it was given.
C14_InputsNeverMutated ==
    [][/\ reference_onsets' = reference_onsets
       /\ reference_offsets' = reference_offsets
       /\ estimated_offsets' = estimated_offsets
       /\ onsets_predicted' = onsets_predicted
       /\ gt_onsets' = gt_onsets]_vars

C14_Witness ==
    /\ Returned /\ Len(result.TP) > Len(matching) /\ Len(matching) > 0
    /\ Len(result.FP) > 0

(***************************************************************************)
(* Property of compute_weighted_average (checked under SpecAverage).       *)
(***************************************************************************)
\* the product of the denominators of scores k, k+1, ...
RECURSIVE DenProductFrom(_, _)
DenProductFrom(scores, k) ==
    IF k > Len(scores) THEN 1 ELSE scores[k][2] * DenProductFrom(scores, k + 1)
\* sum of score_i * weight_i, in units of 1 / DenProductFrom(scores, 1)
ScaledWeightedSum(scores, w) ==
    LET D == DenProductFrom(scores, 1)
        term[k \in 0..Len(scores)] ==
            IF k = 0 THEN 0
            ELSE term[k - 1] + scores[k][1] * (D \div scores[k][2]) * w[k]
    IN  term[Len(scores)]
TotalWeight(w) ==
    LET acc[k \in 0..Len(w)] == IF k = 0 THEN 0 ELSE acc[k - 1] + w[k]
    IN  acc[Len(w)]

\* C15: on sequences of equal length whose weights sum to more than 0 the
\* function returns sum(score_i * weight_i) / sum(weight_i), 0.2 for
\* [1.0, 0.0] with [2, 8]; when the weights sum to 0 (an empty corpus
\* included) or the lengths differ it fails with InvalidInput and returns no
\* value.
C15_WeightedAverage ==
    apc = "done" =>
        IF Len(avg_scores) = Len(avg_weights) /\ TotalWeight(avg_weights) > 0
        THEN /\ average.kind = "return"
             /\ average.value[2] # 0
             /\ average.value[1] * DenProductFrom(avg_scores, 1)
                    * TotalWeight(avg_weights)
                = ScaledWeightedSum(avg_scores, avg_weights) * average.value[2]
             /\ (avg_scores = ExampleScores /\ avg_weights = ExampleWeights)
                    => RatEq(average.value, <<1, 5>>)
        ELSE /\ average.kind = "InvalidInput"
             /\ DOMAIN average = {"kind"}

C15_Witness ==
    /\ apc = "done"
    /\ avg_scores = ExampleScores /\ avg_weights = ExampleWeights
    /\ average.kind = "return" /\ RatEq(average.value, <<1, 5>>)

(***************************************************************************)
(* Property of the corpus-level driver (checked under SpecDriver).         *)
(***************************************************************************)
Evaluated == {k \in 1..Len(list_files) : list_files[k].outcome.kind # "raise"}

\* C16: once the driver has ended on a corpus in which a recording failed
\* and an evaluated recording holds reference events, every other recording
\* was processed (one entry per evaluated recording in each score list and
\* in the event-count list) and the corpus-level averages were written.
C16_FailedRecordingSkipped ==
    (/\ drv_pc \in {"done", "crashed"}
     /\ \E k \in 1..Len(list_files) : list_files[k].outcome.kind = "raise"
     /\ \E k \in Evaluated : list_files[k].n_events > 0) =>
        /\ global_results.kind = "return"
        /\ Len(n_events_list) = Cardinality(Evaluated)
        /\ Len(individual_fscores) = Cardinality(Evaluated)
        /\ Len(individual_precision) = Cardinality(Evaluated)
        /\ Len(individual_recall) = Cardinality(Evaluated)

====
